---- MODULE Spec2Model ----
(***************************************************************************)
(* A model of scmextract: the AST dependency extractor                     *)
(* (extractors/ast_extractor.py), the causal-graph data model              *)
(* (core/types.py) and the graph metrics (evaluation/metrics.py).          *)
(*                                                                         *)
(* Five specifications share the variables: SpecExtract (one call of       *)
(* extract_from_string), SpecGraph (construction and conversion of a       *)
(* CausalGraph), SpecMetrics (one metric call on a pair of graphs),        *)
(* SpecEquality (CausalGraph.__eq__) and SpecConcurrent (two tasks         *)
(* extracting and evaluating at once).                                     *)
(*                                                                         *)
(* Python values are encoded as follows.                                   *)
(*   Optional[T]   None is <<>>, a present value x is <<x>>.               *)
(*   list          a sequence.                                             *)
(*   set           a set.                                                  *)
(*   dict          a function whose DOMAIN is the set of keys.             *)
(*   ast node      a record [k, id, kids]: k is the node class, id the     *)
(*                 identifier it carries (Name.id, Attribute.attr), kids   *)
(*                 its child nodes in the order ast.iter_child_nodes       *)
(*                 yields them.                                            *)
(*   numpy array   a record [shape, data]: shape is the .shape tuple and   *)
(*                 data[i][j] the entry (1-based).                         *)
(*   float ratio   a reduced fraction <<numerator, denominator>>.          *)
(***************************************************************************)
EXTENDS Integers, Sequences, FiniteSets

VARIABLES
    pc,                     \* position of the running call
    source_code,            \* extract_from_string: the source text, line by line
    variables,              \* extract_from_string: Optional[Set[str]] filter
    dependencies,           \* CausalASTVisitor.dependencies
    pos,                    \* index of the next top-level statement to visit
    graph,                  \* Optional[CausalGraph]: the graph a call returned
    error,                  \* name of the exception a call raised, "" if none
    arg,                    \* arguments of the graph-model call made
    roundtrip,              \* Optional[dict]: what to_dependencies returned
    predicted,              \* metrics: the predicted CausalGraph
    ground_truth,           \* metrics: the ground-truth CausalGraph
    result                  \* the value the last metric or __eq__ call returned

vars == <<pc, source_code, variables, dependencies, pos, graph, error, arg,
          roundtrip, predicted, ground_truth, result>>

----------------------------------------------------------------------------
(* Bounds of the model *)

\* longest module body (number of top-level statements) given to the extractor
MaxStmts == 2

\* largest number of rows, of columns and of variables of a directly built graph,
\* and longest explicit variable ordering given to from_dependencies
MaxDim == 2

\* most (target, parent) entries of a dependency mapping given to from_dependencies
MaxEntries == 3

\* most edges of a graph given to the metrics
MaxEdges == 2
MaxTruthEdges == 1

----------------------------------------------------------------------------
(* Python values *)

None == <<>>

Some(x) == <<x>>

Range(s) == {s[i] : i \in DOMAIN s}

EmptyDict == [key \in {} |-> <<>>]

\* d[key] = value on a dict
DictSet(d, key, value) ==
    [x \in DOMAIN d \cup {key} |-> IF x = key THEN value ELSE d[x]]

\* Identifiers in ascending lexicographic (code point) order: the order str.__lt__
\* gives them, which sorted() uses.
Lexicographic ==
    <<"A", "B", "C", "I_to_R", "Infected", "Resistant", "S_to_I", "Susceptible",
      "a", "append", "extend", "numIndividuals", "o", "rateIR", "rateSI", "self", "x">>

StrKey(name) == CHOOSE i \in DOMAIN Lexicographic : Lexicographic[i] = name

RECURSIVE sorted(_)
\* sorted(S) for a set or dict-keys S of strings
sorted(S) ==
    IF S = {} THEN <<>>
    ELSE LET least == CHOOSE v \in S : \A w \in S : StrKey(v) <= StrKey(w)
         IN  <<least>> \o sorted(S \ {least})

RECURSIVE SetToList(_)
\* list(S) for a set S: the elements once each, in an order the language leaves
\* unspecified (a fixed arbitrary one here; nothing below may depend on it).
SetToList(S) ==
    IF S = {} THEN <<>>
    ELSE LET first == CHOOSE v \in S : TRUE
         IN  <<first>> \o SetToList(S \ {first})

----------------------------------------------------------------------------
(* ast nodes *)

Name(id) == [k |-> "Name", id |-> id, kids |-> <<>>]

Constant == [k |-> "Constant", id |-> "", kids |-> <<>>]

Attribute(value, attr) == [k |-> "Attribute", id |-> attr, kids |-> <<value>>]

BinOp(left, right) == [k |-> "BinOp", id |-> "", kids |-> <<left, right>>]

Subscript(value, slice) == [k |-> "Subscript", id |-> "", kids |-> <<value, slice>>]

Tuple(elts) == [k |-> "Tuple", id |-> "", kids |-> elts]

\* Call.func is kids[1], Call.args the rest
Call(func, args) == [k |-> "Call", id |-> "", kids |-> <<func>> \o args]

\* Assign.targets are all kids but the last, Assign.value the last
Assign(targets, value) == [k |-> "Assign", id |-> "", kids |-> targets \o <<value>>]

\* an expression statement
Expr(value) == [k |-> "Expr", id |-> "", kids |-> <<value>>]

\* for target in iter: body
For(target, iter, body) == [k |-> "For", id |-> "", kids |-> <<target, iter>> \o body]

\* class ...: body
ClassDef(body) == [k |-> "ClassDef", id |-> "", kids |-> body]

\* def ...(...): body
FunctionDef(body) == [k |-> "FunctionDef", id |-> "", kids |-> body]

\* return value
ReturnStmt(value) == [k |-> "Return", id |-> "", kids |-> <<value>>]

\* [elts]
List(elts) == [k |-> "List", id |-> "", kids |-> elts]

\* {"key": value, ...}: the keys here are string constants
Dict(values) == [k |-> "Dict", id |-> "", kids |-> values]

\* if test: body
If(test, body) == [k |-> "If", id |-> "", kids |-> <<test>> \o body]

AssignTargets(node) == SubSeq(node.kids, 1, Len(node.kids) - 1)

AssignValue(node) == node.kids[Len(node.kids)]

CallFunc(node) == node.kids[1]

CallArgs(node) == Tail(node.kids)

RECURSIVE walk(_)
\* ast.walk: the nodes of the queue's sub-trees breadth first
walk(todo) ==
    IF todo = <<>> THEN <<>>
    ELSE <<Head(todo)>> \o walk(Tail(todo) \o Head(todo).kids)

----------------------------------------------------------------------------
(* CausalASTVisitor *)

\* Python truth value of an Optional[Set]: None and the empty set are false
Truthy(opt) == opt # None /\ opt[1] # {}

\* bare names only: attribute identifiers are not collected
_get_referenced_names_no_attr(variables_of_interest, node) ==
    LET nodes == walk(<<node>>)
        named == SelectSeq(nodes, LAMBDA child : child.k = "Name")
        names == [i \in DOMAIN named |-> named[i].id]
        kept  == IF Truthy(variables_of_interest)
                 THEN SelectSeq(names, LAMBDA n : n \in variables_of_interest[1])
                 ELSE names
    IN  SetToList(Range(kept))

_get_referenced_names(variables_of_interest, node) ==
    LET nodes == walk(<<node>>)
        named == SelectSeq(nodes, LAMBDA child : child.k \in {"Name", "Attribute"})
        names == [i \in DOMAIN named |-> named[i].id]
        kept  == IF Truthy(variables_of_interest)
                 THEN SelectSeq(names, LAMBDA n : n \in variables_of_interest[1])
                 ELSE names
    IN  SetToList(Range(kept))

_add_dependency_keeping_self(deps_of, target, deps) ==
    IF deps = <<>> THEN deps_of
    ELSE IF target \in DOMAIN deps_of
         THEN DictSet(deps_of, target, SetToList(Range(deps_of[target] \o deps)))
         ELSE DictSet(deps_of, target, deps)

_add_dependency_overwriting(deps_of, target, deps) ==
    LET own == SelectSeq(deps, LAMBDA d : d # target)
    IN  IF own = <<>> THEN deps_of ELSE DictSet(deps_of, target, own)

_add_dependency(deps_of, target, deps) ==
    LET own == SelectSeq(deps, LAMBDA d : d # target)
    IN  IF own = <<>> THEN deps_of
        ELSE IF target \in DOMAIN deps_of
             THEN DictSet(deps_of, target, SetToList(Range(deps_of[target] \o own)))
             ELSE DictSet(deps_of, target, own)

RECURSIVE visit(_, _, _)
RECURSIVE visit_children(_, _, _, _)

\* NodeVisitor.generic_visit: visit every child in order
generic_visit(variables_of_interest, deps_of, node) ==
    visit_children(variables_of_interest, deps_of, node.kids, 1)

\* (the mapping after child i is computed before child i + 1 is entered, as the
\* loop does; an unchanged mapping is passed on as it is)
visit_children(variables_of_interest, deps_of, kids, i) ==
    IF i > Len(kids) THEN deps_of
    ELSE LET visited == visit(variables_of_interest, deps_of, kids[i])
         IN  IF visited = deps_of
             THEN visit_children(variables_of_interest, deps_of, kids, i + 1)
             ELSE visit_children(variables_of_interest, visited, kids, i + 1)

\* the object's name instead of the trailing attribute
AssignTargetName_object(target) ==
    IF target.k = "Attribute" /\ target.kids[1].k = "Name"
    THEN target.kids[1].id ELSE target.id

\* target.id of a Name target, target.attr of an Attribute target
AssignTargetName(target) == target.id

visit_Assign(variables_of_interest, deps_of, node) ==
    LET target == AssignTargets(node)[1]
        target_name == AssignTargetName(target)
    IN  IF target.k \notin {"Name", "Attribute"}
        THEN generic_visit(variables_of_interest, deps_of, node)
        ELSE IF Truthy(variables_of_interest)
                /\ target_name \notin variables_of_interest[1]
        THEN generic_visit(variables_of_interest, deps_of, node)
        ELSE generic_visit(variables_of_interest,
                 _add_dependency(deps_of, target_name,
                     _get_referenced_names(variables_of_interest, AssignValue(node))),
                 node)

\* any method of a plain name recognised, not `append` alone
visit_Call_any_method(variables_of_interest, deps_of, node) ==
    LET func == CallFunc(node)
        args == CallArgs(node)
        recorded ==
            IF func.k = "Attribute" /\ func.kids[1].k = "Name"
            THEN LET target_name == func.kids[1].id
                 IN  IF variables_of_interest = None
                        \/ target_name \in variables_of_interest[1]
                     THEN _add_dependency(deps_of, target_name,
                              IF args # <<>>
                              THEN _get_referenced_names(variables_of_interest, args[1])
                              ELSE <<>>)
                     ELSE deps_of
            ELSE deps_of
    IN  generic_visit(variables_of_interest, recorded, node)

\* no call shape recognised
visit_Call_inert(variables_of_interest, deps_of, node) ==
    generic_visit(variables_of_interest, deps_of, node)

visit_Call(variables_of_interest, deps_of, node) ==
    LET func == CallFunc(node)
        args == CallArgs(node)
        recorded ==
            IF func.k = "Attribute" /\ func.id = "append" /\ func.kids[1].k = "Name"
            THEN LET target_name == func.kids[1].id
                 IN  IF variables_of_interest = None
                        \/ target_name \in variables_of_interest[1]
                     THEN _add_dependency(deps_of, target_name,
                              IF args # <<>>
                              THEN _get_referenced_names(variables_of_interest, args[1])
                              ELSE <<>>)
                     ELSE deps_of
            ELSE deps_of
    IN  generic_visit(variables_of_interest, recorded, node)

\* NodeVisitor.visit: dispatch on the node class
visit(variables_of_interest, deps_of, node) ==
    CASE node.k = "Assign" -> visit_Assign(variables_of_interest, deps_of, node)
      [] node.k = "Call"   -> visit_Call(variables_of_interest, deps_of, node)
      [] OTHER             -> generic_visit(variables_of_interest, deps_of, node)

----------------------------------------------------------------------------
(* CausalGraph *)

\* What a call gives: the exception it raised, or the value it returned
Raise(exception) == [raised |-> exception, value |-> None]

Return(value) == [raised |-> "", value |-> Some(value)]

__post_init___rows_only(self) ==
    IF self.adjacency_matrix.shape[1] # Len(self.variables)
    THEN Raise("ValueError")
    ELSE Return([self EXCEPT !.metadata =
                    IF self.metadata = None THEN Some({}) ELSE self.metadata])

__post_init__(self) ==
    LET n == Len(self.variables)
    IN  IF self.adjacency_matrix.shape # <<n, n>>
        THEN Raise("ValueError")
        ELSE Return([self EXCEPT !.metadata =
                        IF self.metadata = None THEN Some({}) ELSE self.metadata])

\* the dataclass constructor: the generated __init__ stores the fields, then
\* calls __post_init__
CausalGraph(variables_, adjacency_matrix, metadata) ==
    __post_init__([variables |-> variables_,
                   adjacency_matrix |-> adjacency_matrix,
                   metadata |-> metadata])

\* all_vars of from_dependencies when no ordering is given
\* the keys only, no parent names
all_vars_keys_only(deps_of) == DOMAIN deps_of

all_vars(deps_of) ==
    DOMAIN deps_of \cup UNION {Range(deps_of[target]) : target \in DOMAIN deps_of}

\* {v: i for i, v in enumerate(variables)}: a later position overwrites an earlier
var_to_idx(variables_) ==
    [v \in Range(variables_) |->
        CHOOSE i \in DOMAIN variables_ :
            variables_[i] = v /\ \A j \in DOMAIN variables_ : variables_[j] = v => j <= i]

\* adj[j, i] = 1 in place of adj[i, j] = 1
adj_of_transposed(deps_of, variables_) ==
    LET n == Len(variables_)
        idx == var_to_idx(variables_)
    IN  [shape |-> <<n, n>>,
         data |-> [j \in 1..n |-> [i \in 1..n |->
            IF \E target \in DOMAIN deps_of :
                    /\ target \in DOMAIN idx
                    /\ idx[target] = j
                    /\ \E p \in DOMAIN deps_of[target] :
                            /\ deps_of[target][p] \in DOMAIN idx
                            /\ idx[deps_of[target][p]] = i
            THEN 1 ELSE 0]]]

\* the matrix the two loops of from_dependencies leave of np.zeros((n, n)):
\* adj[i, j] = 1 was executed for exactly the (parent, target) pairs of the
\* mapping with both names indexed
adj_of(deps_of, variables_) ==
    LET n == Len(variables_)
        idx == var_to_idx(variables_)
    IN  [shape |-> <<n, n>>,
         data |-> [i \in 1..n |-> [j \in 1..n |->
            IF \E target \in DOMAIN deps_of :
                    /\ target \in DOMAIN idx
                    /\ idx[target] = j
                    /\ \E p \in DOMAIN deps_of[target] :
                            /\ deps_of[target][p] \in DOMAIN idx
                            /\ idx[deps_of[target][p]] = i
            THEN 1 ELSE 0]]]

\* the ordering always inferred, a supplied one ignored
from_dependencies_inferring(deps_of, variables_) ==
    LET vs == sorted(all_vars(deps_of))
    IN  CausalGraph(vs, adj_of(deps_of, vs), None)

from_dependencies(deps_of, variables_) ==
    LET vs == IF variables_ = None THEN sorted(all_vars(deps_of)) ELSE variables_[1]
    IN  CausalGraph(vs, adj_of(deps_of, vs), None)

\* parents of column j in ascending row order
parents_of(self, j) ==
    LET n == Len(self.variables)
        rows == SelectSeq([i \in 1..n |-> i],
                          LAMBDA i : self.adjacency_matrix.data[i][j] = 1)
    IN  [r \in DOMAIN rows |-> self.variables[rows[r]]]

RECURSIVE to_dependencies_from(_, _, _)
\* the loop of to_dependencies from column j on; a repeated name's later column
\* overwrites the entry of its earlier one
to_dependencies_from(self, j, deps_of) ==
    IF j > Len(self.variables) THEN deps_of
    ELSE LET parents == parents_of(self, j)
         IN  to_dependencies_from(self, j + 1,
                 IF parents # <<>>
                 THEN DictSet(deps_of, self.variables[j], parents)
                 ELSE deps_of)

to_dependencies(self) == to_dependencies_from(self, 1, EmptyDict)

\* the (i, j) index pairs in the order the two loops of get_edges scan them
RowMajor(n) == [c \in 1..(n * n) |-> <<((c - 1) \div n) + 1, ((c - 1) % n) + 1>>]

\* the scan with the loops exchanged: destination index outermost
get_edges_column_major(self) ==
    LET n == Len(self.variables)
        scan == [c \in 1..(n * n) |-> <<((c - 1) % n) + 1, ((c - 1) \div n) + 1>>]
        cells == SelectSeq(scan, LAMBDA c : self.adjacency_matrix.data[c[1]][c[2]] = 1)
    IN  [e \in DOMAIN cells |-> <<self.variables[cells[e][1]], self.variables[cells[e][2]]>>]

\* edges as (i, j) index pairs, no names
get_edges_by_index(self) ==
    LET n == Len(self.variables)
    IN  SelectSeq(RowMajor(n), LAMBDA c : self.adjacency_matrix.data[c[1]][c[2]] = 1)

get_edges(self) ==
    LET n == Len(self.variables)
        cells == SelectSeq(RowMajor(n),
                           LAMBDA c : self.adjacency_matrix.data[c[1]][c[2]] = 1)
    IN  [e \in DOMAIN cells |-> <<self.variables[cells[e][1]], self.variables[cells[e][2]]>>]

\* np.array_equal: same shape and equal cell by cell
array_equal(a1, a2) ==
    IF a1.shape # a2.shape
    THEN FALSE
    ELSE \A i \in 1..a1.shape[1], j \in 1..a1.shape[2] : a1.data[i][j] = a2.data[i][j]

\* a Python value with its class
Object(type, value) == [type |-> type, value |-> value]

isinstance(other, class) == other.type = class

\* graphs equal when their named edges are
__eq___by_edges(self, other) ==
    IF ~isinstance(other, "CausalGraph")
    THEN FALSE
    ELSE Range(get_edges(self)) = Range(get_edges(other.value))

__eq__(self, other) ==
    IF ~isinstance(other, "CausalGraph")
    THEN FALSE
    ELSE /\ self.variables = other.value.variables
         /\ array_equal(self.adjacency_matrix, other.value.adjacency_matrix)

----------------------------------------------------------------------------
(* ASTExtractor.extract_from_string, one action per statement visited *)

NoResult == [kind |-> "none"]

\* the statements the extractor is run on
Stmts ==
    {Assign(<<Name("x")>>, Constant),                                 \* x = 5
     Assign(<<Name("x")>>, BinOp(Name("x"), Name("a"))),              \* x = x + a
     Assign(<<Name("x")>>, BinOp(Name("a"), Name("o"))),              \* x = a + o
     Assign(<<Name("x")>>, Attribute(Name("self"), "a")),             \* x = self.a
     Assign(<<Name("o")>>, BinOp(Name("x"), Name("a"))),              \* o = x + a
     Assign(<<Attribute(Name("self"), "x")>>, BinOp(Name("a"), Name("o"))),
                                                                      \* self.x = a + o
     Assign(<<Attribute(Name("self"), "x")>>, Attribute(Name("self"), "a")),
                                                                      \* self.x = self.a
     Assign(<<Subscript(Name("x"), Name("a"))>>, Name("o")),          \* x[a] = o
     Assign(<<Tuple(<<Name("x"), Name("o")>>)>>, Name("a")),          \* x, o = a
     Assign(<<Name("x"), Name("o")>>, Name("a")),                     \* x = o = a
     Assign(<<Name("a")>>, Call(Attribute(Name("o"), "append"), <<Name("x")>>)),
                                                                      \* a = o.append(x)
     Expr(Call(Attribute(Name("o"), "append"), <<Name("a")>>)),       \* o.append(a)
     Expr(Call(Attribute(Name("x"), "append"), <<BinOp(Name("x"), Name("a"))>>)),
                                                                      \* x.append(x + a)
     Expr(Call(Attribute(Name("o"), "append"), <<>>)),                \* o.append()
     Expr(Call(Attribute(Name("o"), "append"), <<Name("a"), Name("x")>>)),
                                                                      \* o.append(a, x)
     Expr(Call(Attribute(Name("o"), "extend"), <<Name("a")>>)),       \* o.extend(a)
     Expr(Call(Attribute(Attribute(Name("self"), "o"), "append"), <<Name("a")>>)),
                                                                      \* self.o.append(a)
     For(Name("a"), Name("o"), <<Assign(<<Name("x")>>, Name("o"))>>)}
                                                                      \* for a in o: x = o

\* simulators/sir.py as ast.parse reads it (docstrings and imports, which hold
\* no Name, Attribute, Assign or Call node, left out)
SIRInit ==
    FunctionDef(<<
        Assign(<<Attribute(Name("self"), "initial_susceptible")>>, Name("susceptible")),
        Assign(<<Attribute(Name("self"), "initial_infected")>>, Name("infected")),
        Assign(<<Attribute(Name("self"), "initial_resistant")>>, Name("resistant")),
        Assign(<<Attribute(Name("self"), "rate_si")>>, Name("rate_si")),
        Assign(<<Attribute(Name("self"), "rate_ir")>>, Name("rate_ir")),
        Assign(<<Attribute(Name("self"), "population")>>,
               BinOp(BinOp(Name("susceptible"), Name("infected")), Name("resistant")))>>)

SIRGetSourcePath == FunctionDef(<<ReturnStmt(Call(Name("Path"), <<Name("__file__")>>))>>)

SIRGetStateVariables == FunctionDef(<<ReturnStmt(List(<<Constant, Constant, Constant>>))>>)

SIRGetAllVariables ==
    FunctionDef(<<ReturnStmt(List(<<Constant, Constant, Constant, Constant, Constant,
                                    Constant, Constant, Constant>>))>>)

SIRGetGroundTruthGraph ==
    FunctionDef(<<
        Assign(<<Name("variables")>>,
               Call(Attribute(Name("self"), "get_all_variables"), <<>>)),
        Assign(<<Name("dependencies")>>,
               Dict(<<List(<<Constant, Constant, Constant, Constant>>),
                      List(<<Constant, Constant>>),
                      List(<<Constant, Constant>>),
                      List(<<Constant, Constant, Constant>>),
                      List(<<Constant, Constant>>)>>)),
        ReturnStmt(Call(Attribute(Name("CausalGraph"), "from_dependencies"),
                        <<Name("dependencies")>>))>>)

\* name[-1]
Last(name) == Subscript(Name(name), Constant)

SIRRun ==
    FunctionDef(<<
        Assign(<<Name("Susceptible")>>,
               List(<<Attribute(Name("self"), "initial_susceptible")>>)),
        Assign(<<Name("Infected")>>, List(<<Attribute(Name("self"), "initial_infected")>>)),
        Assign(<<Name("Resistant")>>,
               List(<<Attribute(Name("self"), "initial_resistant")>>)),
        Assign(<<Name("rateSI")>>, Attribute(Name("self"), "rate_si")),
        Assign(<<Name("rateIR")>>, Attribute(Name("self"), "rate_ir")),
        Assign(<<Name("numIndividuals")>>, Attribute(Name("self"), "population")),
        For(Name("step"), Call(Name("range"), <<Constant, Name("steps")>>), <<
            Assign(<<Name("S_to_I")>>,
                   BinOp(BinOp(BinOp(Name("rateSI"), Last("Susceptible")), Last("Infected")),
                         Name("numIndividuals"))),
            Assign(<<Name("I_to_R")>>, BinOp(Last("Infected"), Name("rateIR"))),
            Expr(Call(Attribute(Name("Susceptible"), "append"),
                      <<BinOp(Last("Susceptible"), Name("S_to_I"))>>)),
            Expr(Call(Attribute(Name("Infected"), "append"),
                      <<BinOp(BinOp(Last("Infected"), Name("S_to_I")), Name("I_to_R"))>>)),
            Expr(Call(Attribute(Name("Resistant"), "append"),
                      <<BinOp(Last("Resistant"), Name("I_to_R"))>>))>>),
        ReturnStmt(Call(Attribute(Name("pd"), "DataFrame"),
            <<Dict(<<Call(Name("list"),
                          <<Call(Name("range"),
                                 <<Call(Name("len"), <<Name("Susceptible")>>)>>)>>),
                     Name("Susceptible"), Name("Infected"), Name("Resistant")>>)>>))>>)

SIRPlot ==
    FunctionDef(<<
        If(Name("results"),
           <<Assign(<<Name("results")>>, Call(Attribute(Name("self"), "run"), <<>>))>>),
        Expr(Call(Attribute(Name("plt"), "figure"), <<>>)),
        Expr(Call(Attribute(Name("plt"), "plot"),
                  <<Subscript(Name("results"), Constant),
                    Subscript(Name("results"), Constant)>>)),
        Expr(Call(Attribute(Name("plt"), "plot"),
                  <<Subscript(Name("results"), Constant),
                    Subscript(Name("results"), Constant)>>)),
        Expr(Call(Attribute(Name("plt"), "plot"),
                  <<Subscript(Name("results"), Constant),
                    Subscript(Name("results"), Constant)>>)),
        Expr(Call(Attribute(Name("plt"), "savefig"), <<Name("output_path")>>)),
        Expr(Call(Attribute(Name("plt"), "close"), <<>>))>>)

SIRSource ==
    <<ClassDef(<<SIRInit, SIRGetSourcePath, SIRGetStateVariables, SIRGetAllVariables,
                 SIRGetGroundTruthGraph, SIRRun, SIRPlot>>)>>

\* SIRSimulator.get_all_variables(), as the set the caller makes of it
SIRVariables ==
    {"Susceptible", "Infected", "Resistant", "S_to_I", "I_to_R",
     "rateSI", "rateIR", "numIndividuals"}

\* a line of text that is not Python, such as `x = = a`
Unparsable == [k |-> "Unparsable", id |-> "", kids |-> <<>>]

Lines == Stmts \cup {Unparsable}

Programs == UNION {[1..n -> Lines] : n \in 0..MaxStmts}

\* a parser that drops the lines it cannot read
ast_parse_skipping_errors(source) ==
    Return(SelectSeq(source, LAMBDA line : line.k # "Unparsable"))

\* ast.parse: the module body, or SyntaxError for the whole text
ast_parse(source) ==
    IF \E i \in DOMAIN source : source[i].k = "Unparsable"
    THEN Raise("SyntaxError")
    ELSE Return(source)

\* the body of the tree that extract_from_string traverses
tree == ast_parse(source_code).value[1]

FilterNames == {"a", "o", "x"}

Filters == {None} \cup {Some(V) : V \in SUBSET FilterNames}

Idle ==
    /\ dependencies = EmptyDict
    /\ pos = 0
    /\ graph = None
    /\ error = ""
    /\ arg = NoResult
    /\ roundtrip = None
    /\ predicted = None
    /\ ground_truth = None
    /\ result = NoResult

InitExtract ==
    /\ pc = "extract_from_string"
    /\ \/ /\ source_code \in Programs
          /\ variables \in Filters
       \/ /\ source_code = SIRSource
          /\ variables = Some(SIRVariables)
    /\ Idle

\* tree = ast.parse(source_code); visitor = CausalASTVisitor(variables)
NewVisitor ==
    /\ pc = "extract_from_string"
    /\ ast_parse(source_code).raised = ""
    /\ pc' = "visit"
    /\ dependencies' = EmptyDict
    /\ pos' = 1
    /\ UNCHANGED <<source_code, variables, graph, error, arg, roundtrip,
                   predicted, ground_truth, result>>

\* visitor.visit(tree) reaches a top-level assignment
VisitAssign ==
    /\ pc = "visit"
    /\ pos <= Len(tree)
    /\ tree[pos].k = "Assign"
    /\ dependencies' = visit_Assign(variables, dependencies, tree[pos])
    /\ pos' = pos + 1
    /\ UNCHANGED <<pc, source_code, variables, graph, error, arg, roundtrip,
                   predicted, ground_truth, result>>

\* visitor.visit(tree) reaches any other top-level statement
VisitStatement ==
    /\ pc = "visit"
    /\ pos <= Len(tree)
    /\ tree[pos].k # "Assign"
    /\ dependencies' = generic_visit(variables, dependencies, tree[pos])
    /\ pos' = pos + 1
    /\ UNCHANGED <<pc, source_code, variables, graph, error, arg, roundtrip,
                   predicted, ground_truth, result>>

\* var_list = sorted(variables) if variables else None
var_list(variables_) == IF Truthy(variables_) THEN Some(sorted(variables_[1])) ELSE None

\* return CausalGraph.from_dependencies(visitor.dependencies, variables=var_list)
ReturnGraph ==
    /\ pc = "visit"
    /\ pos > Len(tree)
    /\ LET made == from_dependencies(dependencies, var_list(variables))
       IN  /\ graph' = made.value
           /\ error' = made.raised
    /\ pc' = "returned"
    /\ UNCHANGED <<source_code, variables, dependencies, pos, arg, roundtrip,
                   predicted, ground_truth, result>>

\* tree = ast.parse(source_code) raises: nothing in extract_from_string catches it
ParseError ==
    /\ pc = "extract_from_string"
    /\ ast_parse(source_code).raised # ""
    /\ pc' = "raised"
    /\ error' = ast_parse(source_code).raised
    /\ UNCHANGED <<source_code, variables, dependencies, pos, graph, arg, roundtrip,
                   predicted, ground_truth, result>>

NextExtract == NewVisitor \/ ParseError \/ VisitAssign \/ VisitStatement \/ ReturnGraph

SpecExtract == InitExtract /\ [][NextExtract]_vars

----------------------------------------------------------------------------
(* The graph model on its own: direct construction, from_dependencies,
   to_dependencies *)

GraphNames == {"A", "B", "C"}

\* 0/1 arrays of a given shape
Arrays(rows, cols) ==
    {[shape |-> <<rows, cols>>, data |-> d] : d \in [1..rows -> [1..cols -> {0, 1}]]}

VariableLists(longest) == UNION {[1..n -> GraphNames] : n \in 0..longest}

Metadata == {None, Some({}), Some({"source"})}

\* dict literals: the mapping left by inserting the (target, parent) entries in
\* order, plus keys whose parent list is empty
RECURSIVE WithEntries(_, _)
WithEntries(deps_of, entries) ==
    IF entries = <<>> THEN deps_of
    ELSE LET target == Head(entries)[1]
             parent == Head(entries)[2]
             so_far == IF target \in DOMAIN deps_of THEN deps_of[target] ELSE <<>>
         IN  WithEntries(DictSet(deps_of, target, Append(so_far, parent)), Tail(entries))

Mappings ==
    {WithEntries([target \in bare |-> <<>>], entries) :
        bare \in SUBSET GraphNames,
        entries \in UNION {[1..n -> GraphNames \X GraphNames] : n \in 0..MaxEntries}}

InitGraph ==
    /\ pc = "model"
    /\ source_code = <<>>
    /\ variables = None
    /\ Idle

\* CausalGraph(variables=..., adjacency_matrix=..., metadata=...)
Construct ==
    /\ pc = "model"
    /\ \E vs \in VariableLists(MaxDim), rows \in 0..MaxDim, cols \in 0..MaxDim,
          md \in Metadata :
          \E adj \in Arrays(rows, cols) :
             LET made == CausalGraph(vs, adj, md)
             IN  /\ arg' = [op |-> "CausalGraph", variables |-> vs,
                            adjacency_matrix |-> adj, metadata |-> md]
                 /\ graph' = made.value
                 /\ error' = made.raised
    /\ pc' = "constructed"
    /\ UNCHANGED <<source_code, variables, dependencies, pos, roundtrip,
                   predicted, ground_truth, result>>

\* CausalGraph.from_dependencies(dependencies, variables)
FromDependencies ==
    /\ pc = "model"
    /\ \E deps_of \in Mappings,
          ordering \in {None} \cup {Some(vs) : vs \in VariableLists(MaxDim)} :
             LET made == from_dependencies(deps_of, ordering)
             IN  /\ arg' = [op |-> "from_dependencies", dependencies |-> deps_of,
                            variables |-> ordering]
                 /\ graph' = made.value
                 /\ error' = made.raised
    /\ pc' = "built"
    /\ UNCHANGED <<source_code, variables, dependencies, pos, roundtrip,
                   predicted, ground_truth, result>>

\* graph.to_dependencies()
ToDependencies ==
    /\ pc \in {"constructed", "built"}
    /\ graph # None
    /\ roundtrip' = Some(to_dependencies(graph[1]))
    /\ pc' = "converted"
    /\ UNCHANGED <<source_code, variables, dependencies, pos, graph, error, arg,
                   predicted, ground_truth, result>>

\* graph.get_edges()
GetEdges ==
    /\ pc \in {"constructed", "built"}
    /\ graph # None
    /\ result' = [kind |-> "edges", value |-> get_edges(graph[1])]
    /\ pc' = "listed"
    /\ UNCHANGED <<source_code, variables, dependencies, pos, graph, error, arg,
                   roundtrip, predicted, ground_truth>>

NextGraph == Construct \/ FromDependencies \/ ToDependencies \/ GetEdges

SpecGraph == InitGraph /\ [][NextGraph]_vars

----------------------------------------------------------------------------
(* Graph metrics *)

RECURSIVE gcd(_, _)
gcd(a, b) == IF b = 0 THEN a ELSE gcd(b, a % b)

\* the float a / b of two small naturals, b > 0, as a reduced fraction
Ratio(a, b) == <<a \div gcd(a, b), b \div gcd(a, b)>>

One == Ratio(1, 1)

Zero == Ratio(0, 1)

\* a pair <<pred_edges, true_edges>> of sets
_get_edge_sets(predicted_, ground_truth_) ==
    <<Range(get_edges(predicted_)), Range(get_edges(ground_truth_))>>

precision_over_truth(predicted_, ground_truth_) ==
    LET sets == _get_edge_sets(predicted_, ground_truth_)
        pred_edges == sets[1]
        true_edges == sets[2]
    IN  IF Cardinality(pred_edges) = 0
        THEN IF Cardinality(true_edges) = 0 THEN One ELSE Zero
        ELSE IF Cardinality(true_edges) = 0 THEN Zero
        ELSE Ratio(Cardinality(pred_edges \cap true_edges), Cardinality(true_edges))

\* no predicted edge gives 0.0 whatever the truth
precision_empty_is_zero(predicted_, ground_truth_) ==
    LET sets == _get_edge_sets(predicted_, ground_truth_)
        pred_edges == sets[1]
        true_edges == sets[2]
    IN  IF Cardinality(pred_edges) = 0
        THEN Zero
        ELSE Ratio(Cardinality(pred_edges \cap true_edges), Cardinality(pred_edges))

precision(predicted_, ground_truth_) ==
    LET sets == _get_edge_sets(predicted_, ground_truth_)
        pred_edges == sets[1]
        true_edges == sets[2]
    IN  IF Cardinality(pred_edges) = 0
        THEN IF Cardinality(true_edges) = 0 THEN One ELSE Zero
        ELSE Ratio(Cardinality(pred_edges \cap true_edges), Cardinality(pred_edges))

recall_empty_truth_is_one(predicted_, ground_truth_) ==
    LET sets == _get_edge_sets(predicted_, ground_truth_)
        pred_edges == sets[1]
        true_edges == sets[2]
    IN  IF Cardinality(true_edges) = 0
        THEN One
        ELSE Ratio(Cardinality(pred_edges \cap true_edges), Cardinality(true_edges))

\* every predicted edge counted as a true positive
recall_counting_predicted(predicted_, ground_truth_) ==
    LET sets == _get_edge_sets(predicted_, ground_truth_)
        pred_edges == sets[1]
        true_edges == sets[2]
    IN  IF Cardinality(true_edges) = 0
        THEN IF Cardinality(pred_edges) = 0 THEN One ELSE Zero
        ELSE Ratio(Cardinality(pred_edges), Cardinality(true_edges))

recall(predicted_, ground_truth_) ==
    LET sets == _get_edge_sets(predicted_, ground_truth_)
        pred_edges == sets[1]
        true_edges == sets[2]
    IN  IF Cardinality(true_edges) = 0
        THEN IF Cardinality(pred_edges) = 0 THEN One ELSE Zero
        ELSE Ratio(Cardinality(pred_edges \cap true_edges), Cardinality(true_edges))

\* float arithmetic on the quotients of small naturals, as exact fractions
RatAdd(a, b) == Ratio(a[1] * b[2] + b[1] * a[2], a[2] * b[2])

RatMul(a, b) == Ratio(a[1] * b[1], a[2] * b[2])

\* what a division by 0.0 gives: ZeroDivisionError
ZeroDivision == <<0, 0>>

RatDiv(a, b) == IF b[1] = 0 THEN ZeroDivision ELSE Ratio(a[1] * b[2], a[2] * b[1])

\* without the p + r == 0 test
f1_score_unguarded(predicted_, ground_truth_) ==
    LET p == precision(predicted_, ground_truth_)
        r == recall(predicted_, ground_truth_)
    IN  RatDiv(RatMul(Ratio(2, 1), RatMul(p, r)), RatAdd(p, r))

f1_score(predicted_, ground_truth_) ==
    LET p == precision(predicted_, ground_truth_)
        r == recall(predicted_, ground_truth_)
    IN  IF RatAdd(p, r) = Zero
        THEN Zero
        ELSE RatDiv(RatMul(Ratio(2, 1), RatMul(p, r)), RatAdd(p, r))

\* false positives only
structural_hamming_distance_fp_only(predicted_, ground_truth_) ==
    LET sets == _get_edge_sets(predicted_, ground_truth_)
    IN  Cardinality(sets[1] \ sets[2])

\* a reversed edge counted as one flip
structural_hamming_distance_flips(predicted_, ground_truth_) ==
    LET sets == _get_edge_sets(predicted_, ground_truth_)
        pred_edges == sets[1]
        true_edges == sets[2]
        flipped == {e \in pred_edges \ true_edges :
                      e[1] # e[2] /\ <<e[2], e[1]>> \in true_edges \ pred_edges}
    IN  Cardinality(pred_edges \ true_edges) + Cardinality(true_edges \ pred_edges)
            - Cardinality(flipped)

structural_hamming_distance(predicted_, ground_truth_) ==
    LET sets == _get_edge_sets(predicted_, ground_truth_)
        pred_edges == sets[1]
        true_edges == sets[2]
        false_positives == Cardinality(pred_edges \ true_edges)
        false_negatives == Cardinality(true_edges \ pred_edges)
    IN  false_positives + false_negatives

evaluate_graph(predicted_, ground_truth_) ==
    [precision |-> precision(predicted_, ground_truth_),
     recall |-> recall(predicted_, ground_truth_),
     f1 |-> f1_score(predicted_, ground_truth_),
     shd |-> structural_hamming_distance(predicted_, ground_truth_)]

\* the graphs the metrics are run on: a variable list and a 0/1 relation
MetricVariableLists ==
    {<<>>, <<"A", "B">>, <<"A", "A">>, <<"A", "B", "C">>, <<"C", "A", "B">>}

CountOnes(adj) ==
    Cardinality({c \in (1..adj.shape[1]) \X (1..adj.shape[2]) : adj.data[c[1]][c[2]] = 1})

GraphsUpTo(edges) ==
    {[variables |-> vs, adjacency_matrix |-> adj, metadata |-> Some({})] :
        <<vs, adj>> \in UNION {{<<v, a>> : a \in {b \in Arrays(Len(v), Len(v)) :
                                                   CountOnes(b) <= edges}} :
                                 v \in MetricVariableLists}}

Graphs == GraphsUpTo(MaxEdges)

\* the ground truths a prediction is scored against, besides itself
TruthGraphs == GraphsUpTo(MaxTruthEdges)

InitMetrics ==
    /\ pc = "metrics"
    /\ source_code = <<>>
    /\ variables = None
    /\ dependencies = EmptyDict
    /\ pos = 0
    /\ graph = None
    /\ error = ""
    /\ arg = NoResult
    /\ roundtrip = None
    /\ predicted \in Graphs
    /\ \/ ground_truth \in TruthGraphs
       \/ ground_truth = predicted
    /\ result = NoResult

Precision ==
    /\ pc = "metrics"
    /\ result' = [kind |-> "precision", value |-> precision(predicted, ground_truth)]
    /\ pc' = "scored"
    /\ UNCHANGED <<source_code, variables, dependencies, pos, graph, error, arg,
                   roundtrip, predicted, ground_truth>>

Recall ==
    /\ pc = "metrics"
    /\ result' = [kind |-> "recall", value |-> recall(predicted, ground_truth)]
    /\ pc' = "scored"
    /\ UNCHANGED <<source_code, variables, dependencies, pos, graph, error, arg,
                   roundtrip, predicted, ground_truth>>

F1Score ==
    /\ pc = "metrics"
    /\ result' = [kind |-> "f1", value |-> f1_score(predicted, ground_truth)]
    /\ pc' = "scored"
    /\ UNCHANGED <<source_code, variables, dependencies, pos, graph, error, arg,
                   roundtrip, predicted, ground_truth>>

StructuralHammingDistance ==
    /\ pc = "metrics"
    /\ result' = [kind |-> "shd",
                  value |-> structural_hamming_distance(predicted, ground_truth)]
    /\ pc' = "scored"
    /\ UNCHANGED <<source_code, variables, dependencies, pos, graph, error, arg,
                   roundtrip, predicted, ground_truth>>

EvaluateGraph ==
    /\ pc = "metrics"
    /\ result' = [kind |-> "evaluate", value |-> evaluate_graph(predicted, ground_truth)]
    /\ pc' = "scored"
    /\ UNCHANGED <<source_code, variables, dependencies, pos, graph, error, arg,
                   roundtrip, predicted, ground_truth>>

NextMetrics ==
    Precision \/ Recall \/ F1Score \/ StructuralHammingDistance \/ EvaluateGraph

SpecMetrics == InitMetrics /\ [][NextMetrics]_vars

----------------------------------------------------------------------------
(* CausalGraph.__eq__ *)

EqVariableLists == {<<>>, <<"A">>, <<"A", "B">>, <<"B", "A">>, <<"A", "A">>}

EqGraphs ==
    {[variables |-> vs, adjacency_matrix |-> adj, metadata |-> Some(md)] :
        <<vs, adj>> \in UNION {{<<v, a>> : a \in Arrays(Len(v), Len(v))} :
                                 v \in EqVariableLists},
        md \in {{}, {"source"}}}

\* values of other classes made of the graph's own parts
OtherClasses == {"NoneType", "list", "tuple", "ndarray", "dict"}

NonGraph(self, class) ==
    CASE class = "NoneType" -> Object(class, None)
      [] class = "list" -> Object(class, self.variables)
      [] class = "tuple" -> Object(class, <<self.variables, self.adjacency_matrix>>)
      [] class = "ndarray" -> Object(class, self.adjacency_matrix)
      [] class = "dict" -> Object(class, to_dependencies(self))

InitEquality ==
    /\ pc = "__eq__"
    /\ source_code = <<>>
    /\ variables = None
    /\ dependencies = EmptyDict
    /\ pos = 0
    /\ graph = None
    /\ error = ""
    /\ arg = NoResult
    /\ roundtrip = None
    /\ predicted \in EqGraphs
    /\ ground_truth = None
    /\ result = NoResult

\* self == other for another graph
EqualsGraph ==
    /\ pc = "__eq__"
    /\ \E g \in EqGraphs :
          LET other == Object("CausalGraph", g)
          IN  /\ arg' = [op |-> "__eq__", other |-> other]
              /\ result' = [kind |-> "eq", value |-> __eq__(predicted, other)]
    /\ pc' = "compared"
    /\ UNCHANGED <<source_code, variables, dependencies, pos, graph, error,
                   roundtrip, predicted, ground_truth>>

\* self == other for a value of another class
EqualsOther ==
    /\ pc = "__eq__"
    /\ \E class \in OtherClasses :
          LET other == NonGraph(predicted, class)
          IN  /\ arg' = [op |-> "__eq__", other |-> other]
              /\ result' = [kind |-> "eq", value |-> __eq__(predicted, other)]
    /\ pc' = "compared"
    /\ UNCHANGED <<source_code, variables, dependencies, pos, graph, error,
                   roundtrip, predicted, ground_truth>>

NextEquality == EqualsGraph \/ EqualsOther

SpecEquality == InitEquality /\ [][NextEquality]_vars

----------------------------------------------------------------------------
(* Concurrent calls: extract_from_string and evaluate_graph run by several   *)
(* tasks at once. Here pc, source_code, variables, pos, graph, error and     *)
(* result hold one value per task, arg[t] is the CausalASTVisitor object of  *)
(* task t (0 before it exists), and dependencies is the heap: the            *)
(* .dependencies dict of every visitor object.                               *)

Tasks == {1, 2}

\* extract_from_string from its first line to its return, as one call
extract_from_string(source, variables_) ==
    LET parsed == ast_parse(source)
    IN  IF parsed.raised # ""
        THEN Raise(parsed.raised)
        ELSE from_dependencies(visit_children(variables_, EmptyDict, parsed.value[1], 1),
                               var_list(variables_))

ConcurrentSources ==
    {<<>>,
     <<Unparsable>>,
     <<Assign(<<Name("x")>>, BinOp(Name("a"), Name("o")))>>,
     <<Assign(<<Name("x")>>, BinOp(Name("x"), Name("a"))),
       Expr(Call(Attribute(Name("o"), "append"), <<Name("a")>>))>>,
     <<Assign(<<Name("o")>>, BinOp(Name("x"), Name("a"))),
       Assign(<<Name("x")>>, Attribute(Name("self"), "a"))>>}

ConcurrentFilters == {None, Some({"a", "x"})}

\* the ground truth every task scores its graph against: a -> x, o -> x
TaskTruth == from_dependencies([t \in {"x"} |-> <<"a", "o">>], None).value[1]

\* one visitor object that every call gets
CausalASTVisitor_shared(heap) == 1

\* CausalASTVisitor(...): a new object, distinct from every existing one
CausalASTVisitor(heap) == Cardinality(DOMAIN heap) + 1

InitConcurrent ==
    /\ pc = [t \in Tasks |-> "extract_from_string"]
    /\ source_code \in [Tasks -> ConcurrentSources]
    /\ variables \in [Tasks -> ConcurrentFilters]
    /\ dependencies = EmptyDict
    /\ pos = [t \in Tasks |-> 0]
    /\ graph = [t \in Tasks |-> None]
    /\ error = [t \in Tasks |-> ""]
    /\ arg = [t \in Tasks |-> 0]
    /\ roundtrip = None
    /\ predicted = None
    /\ ground_truth = TaskTruth
    /\ result = [t \in Tasks |-> NoResult]

\* tree = ast.parse(source_code); visitor = CausalASTVisitor(variables)
TaskNewVisitor(t) ==
    /\ pc[t] = "extract_from_string"
    /\ ast_parse(source_code[t]).raised = ""
    /\ LET visitor == CausalASTVisitor(dependencies)
       IN  /\ arg' = [arg EXCEPT ![t] = visitor]
           /\ dependencies' = DictSet(dependencies, visitor, EmptyDict)
    /\ pos' = [pos EXCEPT ![t] = 1]
    /\ pc' = [pc EXCEPT ![t] = "visit"]
    /\ UNCHANGED <<source_code, variables, graph, error, roundtrip,
                   predicted, ground_truth, result>>

\* tree = ast.parse(source_code) raises
TaskParseError(t) ==
    /\ pc[t] = "extract_from_string"
    /\ ast_parse(source_code[t]).raised # ""
    /\ error' = [error EXCEPT ![t] = ast_parse(source_code[t]).raised]
    /\ pc' = [pc EXCEPT ![t] = "raised"]
    /\ UNCHANGED <<source_code, variables, dependencies, pos, graph, arg, roundtrip,
                   predicted, ground_truth, result>>

\* visitor.visit(tree) reaches the next top-level statement
TaskVisit(t) ==
    /\ pc[t] = "visit"
    /\ pos[t] <= Len(source_code[t])
    /\ dependencies' = [dependencies EXCEPT
                            ![arg[t]] = visit(variables[t], @, source_code[t][pos[t]])]
    /\ pos' = [pos EXCEPT ![t] = @ + 1]
    /\ UNCHANGED <<pc, source_code, variables, graph, error, arg, roundtrip,
                   predicted, ground_truth, result>>

\* return CausalGraph.from_dependencies(visitor.dependencies, variables=var_list)
TaskReturnGraph(t) ==
    /\ pc[t] = "visit"
    /\ pos[t] > Len(source_code[t])
    /\ LET made == from_dependencies(dependencies[arg[t]], var_list(variables[t]))
       IN  /\ graph' = [graph EXCEPT ![t] = made.value]
           /\ error' = [error EXCEPT ![t] = made.raised]
    /\ pc' = [pc EXCEPT ![t] = "returned"]
    /\ UNCHANGED <<source_code, variables, dependencies, pos, arg, roundtrip,
                   predicted, ground_truth, result>>

\* evaluate_graph(graph, ground_truth) on the graph the task extracted
TaskEvaluateGraph(t) ==
    /\ pc[t] = "returned"
    /\ graph[t] # None
    /\ result' = [result EXCEPT ![t] =
                      [kind |-> "evaluate",
                       value |-> evaluate_graph(graph[t][1], ground_truth)]]
    /\ pc' = [pc EXCEPT ![t] = "evaluated"]
    /\ UNCHANGED <<source_code, variables, dependencies, pos, graph, error, arg,
                   roundtrip, predicted, ground_truth>>

NextConcurrent ==
    \E t \in Tasks :
        \/ TaskNewVisitor(t)
        \/ TaskParseError(t)
        \/ TaskVisit(t)
        \/ TaskReturnGraph(t)
        \/ TaskEvaluateGraph(t)

SpecConcurrent == InitConcurrent /\ [][NextConcurrent]_vars

----------------------------------------------------------------------------
(* Read-only use of shared graphs: any sequence of the graph's views, its    *)
(* equality and the metrics on one predicted graph and one ground truth.     *)
(* arg keeps the two graphs as they were constructed.                        *)

\* CausalGraph.num_edges
num_edges(self) == CountOnes(self.adjacency_matrix)

Operations ==
    {"get_edges", "num_edges", "to_dependencies", "__eq__", "precision", "recall",
     "f1_score", "structural_hamming_distance", "evaluate_graph"}

\* what the call returns
ValueOf(op, predicted_, ground_truth_) ==
    CASE op = "get_edges" -> get_edges(ground_truth_)
      [] op = "num_edges" -> num_edges(ground_truth_)
      [] op = "to_dependencies" -> to_dependencies(ground_truth_)
      [] op = "__eq__" -> __eq__(ground_truth_, Object("CausalGraph", predicted_))
      [] op = "precision" -> precision(predicted_, ground_truth_)
      [] op = "recall" -> recall(predicted_, ground_truth_)
      [] op = "f1_score" -> f1_score(predicted_, ground_truth_)
      [] op = "structural_hamming_distance"
            -> structural_hamming_distance(predicted_, ground_truth_)
      [] op = "evaluate_graph" -> evaluate_graph(predicted_, ground_truth_)

\* a call that leaves a note in the metadata of the ground truth
Apply_annotating(op, predicted_, ground_truth_) ==
    [value |-> ValueOf(op, predicted_, ground_truth_),
     predicted |-> predicted_,
     ground_truth |-> [ground_truth_ EXCEPT !.metadata = Some({op})]]

\* the call's value and the two graphs as the call leaves them: none of the
\* operations assigns to a field of a graph or to an element of its list or
\* array, and each returns newly built lists, dicts and numbers
Apply(op, predicted_, ground_truth_) ==
    [value |-> ValueOf(op, predicted_, ground_truth_),
     predicted |-> predicted_,
     ground_truth |-> ground_truth_]

SharedGraphs == {g \in EqGraphs : g.metadata = Some({"source"})}

InitShared ==
    /\ pc = "shared"
    /\ source_code = <<>>
    /\ variables = None
    /\ dependencies = EmptyDict
    /\ pos = 0
    /\ graph = None
    /\ error = ""
    /\ roundtrip = None
    /\ predicted \in SharedGraphs
    /\ ground_truth \in SharedGraphs
    /\ arg = [predicted |-> predicted, ground_truth |-> ground_truth]
    /\ result = NoResult

\* one more call on the shared graphs
Operate(op) ==
    /\ pc = "shared"
    /\ LET applied == Apply(op, predicted, ground_truth)
       IN  /\ result' = [kind |-> op, value |-> applied.value]
           /\ predicted' = applied.predicted
           /\ ground_truth' = applied.ground_truth
    /\ UNCHANGED <<pc, source_code, variables, dependencies, pos, graph, error, arg,
                   roundtrip>>

NextShared == \E op \in Operations : Operate(op)

SpecShared == InitShared /\ [][NextShared]_vars

----------------------------------------------------------------------------
(* Extraction followed by scoring against a ground truth, as the scripts and
   the command line run them *)

\* SIRSimulator.get_ground_truth_graph(): each state variable is among its own
\* parents
get_ground_truth_graph ==
    LET variables_ == <<"Susceptible", "Infected", "Resistant", "S_to_I", "I_to_R",
                        "rateSI", "rateIR", "numIndividuals">>
        dependencies_ ==
            [t \in {"Susceptible", "Infected", "Resistant", "S_to_I", "I_to_R"} |->
                CASE t = "Susceptible" -> <<"Susceptible", "S_to_I">>
                  [] t = "Infected" -> <<"Infected", "S_to_I", "I_to_R">>
                  [] t = "Resistant" -> <<"Resistant", "I_to_R">>
                  [] t = "S_to_I" -> <<"rateSI", "Susceptible", "Infected",
                                       "numIndividuals">>
                  [] t = "I_to_R" -> <<"Infected", "rateIR">>]
    IN  from_dependencies(dependencies_, Some(variables_)).value[1]

\* the parent lists the ground truths below are built from
GroundTruthDependencies ==
    {[t \in {"x"} |-> <<"a", "o">>],
     [t \in {"x"} |-> <<"x">>],
     [t \in {"x"} |-> <<"x", "a">>],
     [t \in {"o", "x"} |-> IF t = "o" THEN <<"o", "a">> ELSE <<"x", "a", "o">>],
     [t \in {"a", "o"} |-> <<"a">>]}

\* the ground truths a returned graph is scored against
GroundTruths ==
    {get_ground_truth_graph}
    \cup {from_dependencies(d, None).value[1] : d \in GroundTruthDependencies}

\* ground_truth = simulator.get_ground_truth_graph();
\* metrics = evaluate_graph(predicted, ground_truth)
ScorePredicted ==
    /\ pc = "returned"
    /\ graph # None
    /\ \E truth \in GroundTruths :
          /\ predicted' = graph[1]
          /\ ground_truth' = truth
          /\ result' = [kind |-> "evaluate",
                        value |-> evaluate_graph(graph[1], truth)]
    /\ pc' = "scored"
    /\ UNCHANGED <<source_code, variables, dependencies, pos, graph, error, arg,
                   roundtrip>>

NextScore == NextExtract \/ ScorePredicted

SpecScore == InitExtract /\ [][NextScore]_vars

----------------------------------------------------------------------------
(* Vocabulary of the properties, defined on the syntax tree and on the values
   themselves, not through the visitor *)

RECURSIVE Identifiers(_)
\* every bare name and every attribute trailing identifier in the sub-tree of e
Identifiers(e) ==
    (IF e.k \in {"Name", "Attribute"} THEN {e.id} ELSE {})
    \cup UNION {Identifiers(e.kids[i]) : i \in DOMAIN e.kids}

RECURSIVE Nodes(_)
Nodes(e) == {e} \cup UNION {Nodes(e.kids[i]) : i \in DOMAIN e.kids}

\* a filter is supplied and holds t, or none is supplied
Passes(filter, t) == filter = None \/ t \in filter[1]

\* S intersected with the filter when one is supplied
Restrict(filter, S) == IF filter = None THEN S ELSE S \cap filter[1]

\* the parents a mapping records for t
ParentSet(deps_of, t) == IF t \in DOMAIN deps_of THEN Range(deps_of[t]) ELSE {}

\* the (parent, child) name pairs of a graph's set relation entries
EdgeSet(g) ==
    {<<g.variables[c[1]], g.variables[c[2]]>> :
        c \in {d \in (DOMAIN g.variables) \X (DOMAIN g.variables) :
                  g.adjacency_matrix.data[d[1]][d[2]] = 1}}

\* n is `t = e` or `obj.t = e` (first target)
IsAssignTo(n, t) ==
    /\ n.k = "Assign"
    /\ n.kids[1].k \in {"Name", "Attribute"}
    /\ n.kids[1].id = t

\* n is `t.append(...)` on the plain name t
IsAppendOn(n, t) ==
    /\ n.k = "Call"
    /\ n.kids[1].k = "Attribute"
    /\ n.kids[1].id = "append"
    /\ n.kids[1].kids[1].k = "Name"
    /\ n.kids[1].kids[1].id = t

\* some node of the statement assigns or appends to t
WritesTo(stmt, t) == \E n \in Nodes(stmt) : IsAssignTo(n, t) \/ IsAppendOn(n, t)

AllIdentifiers == Range(Lexicographic)

Returned == pc = "returned" /\ graph # None

----------------------------------------------------------------------------
(* C1 *)

\* C1: the mapping never holds a target among its own parents, and the graph
\* extract returns has no edge from a variable to itself.
C1_NoSelfLoop ==
    /\ \A t \in DOMAIN dependencies : t \notin Range(dependencies[t])
    /\ graph # None => \A e \in EdgeSet(graph[1]) : e[1] # e[2]

\* a returned graph with an edge into a target whose own assignment reads it
C1_Witness ==
    /\ Returned
    /\ \E i \in DOMAIN source_code : \E t \in AllIdentifiers :
          /\ IsAssignTo(source_code[i], t)
          /\ t \in Identifiers(AssignValue(source_code[i]))
          /\ \E e \in EdgeSet(graph[1]) : e[2] = t

(* C2 *)

\* C2: whenever a filter V is supplied, the empty set included, the returned
\* graph's variable list is exactly V in ascending order.
C2_FilterFixesVariables ==
    (pc = "returned" /\ variables # None)
        => (graph # None /\ graph[1].variables = sorted(variables[1]))

(* C3 *)

\* C3: when a program's only write to t is one top-level assignment `t = e`
\* whose target passes the filter, the parents recorded for t, in the mapping
\* and in the returned graph, are the identifiers of e, intersected with the
\* filter when one is supplied, minus t.
C3_AssignmentParents ==
    Returned =>
        \A i \in DOMAIN source_code :
            LET stmt == source_code[i]
                t == stmt.kids[1].id
                expected == Restrict(variables, Identifiers(AssignValue(stmt))) \ {t}
            IN  ( /\ IsAssignTo(stmt, t)
                  /\ Passes(variables, t)
                  /\ \A j \in DOMAIN source_code \ {i} : ~WritesTo(source_code[j], t) )
                => /\ ParentSet(dependencies, t) = expected
                   /\ {e[1] : e \in {d \in EdgeSet(graph[1]) : d[2] = t}} = expected

\* an attribute identifier of e was recorded and another identifier was filtered out
C3_Witness ==
    /\ Returned
    /\ variables # None
    /\ \E i \in DOMAIN source_code : \E t \in AllIdentifiers :
          /\ IsAssignTo(source_code[i], t)
          /\ Passes(variables, t)
          /\ \A j \in DOMAIN source_code \ {i} : ~WritesTo(source_code[j], t)
          /\ \E n \in Nodes(AssignValue(source_code[i])) :
                n.k = "Attribute" /\ n.id \in ParentSet(dependencies, t)
          /\ ~(Identifiers(AssignValue(source_code[i])) \subseteq variables[1])

(* C4 *)

\* the statement `o.append(e)`: one positional argument, owner a plain name
IsAppendStatement(stmt) ==
    /\ stmt.k = "Expr"
    /\ \E o \in AllIdentifiers : IsAppendOn(stmt.kids[1], o)
    /\ Len(CallArgs(stmt.kids[1])) = 1

AsAssignment(stmt) ==
    Assign(<<Name(stmt.kids[1].kids[1].kids[1].id)>>, CallArgs(stmt.kids[1])[1])

\* C4: for every filter setting, visiting `o.append(e)` changes the mapping
\* exactly as visiting `o = e` would.
C4_AppendIsAssignment ==
    [][ ( /\ pc = "visit"
          /\ pos <= Len(source_code)
          /\ IsAppendStatement(source_code[pos]) )
        => dependencies' =
              visit(variables, dependencies, AsAssignment(source_code[pos])) ]_vars

(* C5 *)

\* the mapping one statement yields when visited alone
Alone(stmt) == visit(variables, EmptyDict, stmt)

\* the mapping a whole module body yields
Traverse(body) == visit_children(variables, EmptyDict, body, 1)

Reorderings(seq) ==
    {[i \in DOMAIN seq |-> seq[f[i]]] :
        f \in {g \in [DOMAIN seq -> DOMAIN seq] :
                  \A a, b \in DOMAIN seq : a # b => g[a] # g[b]}}

C6_AttributeTarget ==
    Returned =>
        \A i \in DOMAIN source_code :
            LET stmt == source_code[i]
                target == stmt.kids[1]
                obj == target.kids[1].id
                field == target.id
            IN  ( /\ stmt.k = "Assign"
                  /\ target.k = "Attribute"
                  /\ target.kids[1].k = "Name" )
                => /\ (\A j \in DOMAIN source_code : ~WritesTo(source_code[j], obj))
                        => obj \notin DOMAIN dependencies
                   /\ ( /\ obj \notin Identifiers(AssignValue(stmt))
                        /\ \A j \in DOMAIN source_code \ {i} :
                              ~WritesTo(source_code[j], field) )
                        => obj \notin ParentSet(dependencies, field)
                   /\ ( /\ Passes(variables, field)
                        /\ \A j \in DOMAIN source_code \ {i} :
                              ~WritesTo(source_code[j], field) )
                        => ParentSet(dependencies, field) =
                              Restrict(variables, Identifiers(AssignValue(stmt))) \ {field}

\* an attribute assignment was recorded under its field name
C6_Witness ==
    /\ Returned
    /\ \E i \in DOMAIN source_code :
          /\ source_code[i].k = "Assign"
          /\ source_code[i].kids[1].k = "Attribute"
          /\ source_code[i].kids[1].id \in DOMAIN dependencies
          /\ \A j \in DOMAIN source_code \ {i} :
                ~WritesTo(source_code[j], source_code[i].kids[1].id)

----------------------------------------------------------------------------
(* C7 *)

\* the (target, parent) pairs of a mapping
PairSet(deps_of) ==
    UNION {{<<target, deps_of[target][i]>> : i \in DOMAIN deps_of[target]} :
              target \in DOMAIN deps_of}

\* C7: from_dependencies(D) with the ordering inferred, then to_dependencies,
\* returns a mapping with the same set of (target, parent) pairs as D.
C7_RoundTrip ==
    (pc = "converted" /\ arg.op = "from_dependencies" /\ arg.variables = None)
        => /\ roundtrip # None
           /\ PairSet(roundtrip[1]) = PairSet(arg.dependencies)

\* a round trip of a mapping with a repeated parent, a one-way edge and a key
\* without parents
C7_Witness ==
    /\ pc = "converted"
    /\ arg.op = "from_dependencies"
    /\ arg.variables = None
    /\ \E t \in DOMAIN arg.dependencies :
          Len(arg.dependencies[t]) > Cardinality(Range(arg.dependencies[t]))
    /\ \E t \in DOMAIN arg.dependencies : arg.dependencies[t] = <<>>
    /\ \E e \in PairSet(arg.dependencies) :
          e[1] # e[2] /\ <<e[2], e[1]>> \notin PairSet(arg.dependencies)

(* C8 *)

\* C8: a construction whose relation is not n x n raises ValueError and gives
\* no graph, and every graph that exists has an n x n relation.
C8_ShapeChecked ==
    /\ graph # None =>
          graph[1].adjacency_matrix.shape =
              <<Len(graph[1].variables), Len(graph[1].variables)>>
    /\ ( /\ pc = "constructed"
         /\ arg.adjacency_matrix.shape # <<Len(arg.variables), Len(arg.variables)>> )
        => (error = "ValueError" /\ graph = None)
    /\ error # "" => graph = None

\* a relation with n rows and another number of columns was refused
C8_Witness ==
    /\ pc = "constructed"
    /\ arg.adjacency_matrix.shape[1] = Len(arg.variables)
    /\ arg.adjacency_matrix.shape[2] # Len(arg.variables)
    /\ error = "ValueError"
    /\ graph = None

(* C9 *)

\* C9: precision is |P \cap T| / |P| over the name-labelled edge sets; with P
\* empty it is 1 when T is empty too and 0 otherwise.
C9_Precision ==
    result.kind = "precision" =>
        LET P == EdgeSet(predicted)
            T == EdgeSet(ground_truth)
        IN  /\ result.value[2] > 0
            /\ P # {} => result.value[1] * Cardinality(P)
                            = Cardinality(P \cap T) * result.value[2]
            /\ (P = {} /\ T = {}) => result.value = <<1, 1>>
            /\ (P = {} /\ T # {}) => result.value = <<0, 1>>

\* precision 1/2: two predicted edges, one of them true
C9_Witness ==
    /\ result.kind = "precision"
    /\ result.value = <<1, 2>>
    /\ Cardinality(EdgeSet(predicted)) = 2
    /\ Cardinality(EdgeSet(ground_truth)) = 1

(* C10 *)

\* C10: recall is |P \cap T| / |T| over the name-labelled edge sets; with T
\* empty it is 1 when P is empty too and 0 otherwise.
C10_Recall ==
    result.kind = "recall" =>
        LET P == EdgeSet(predicted)
            T == EdgeSet(ground_truth)
        IN  /\ result.value[2] > 0
            /\ T # {} => result.value[1] * Cardinality(T)
                            = Cardinality(P \cap T) * result.value[2]
            /\ (T = {} /\ P = {}) => result.value = <<1, 1>>
            /\ (T = {} /\ P # {}) => result.value = <<0, 1>>

\* recall 0 against an empty truth: the prediction has an edge
C10_Witness ==
    /\ result.kind = "recall"
    /\ result.value = <<0, 1>>
    /\ EdgeSet(ground_truth) = {}
    /\ EdgeSet(predicted) # {}

(* C11 *)

\* C11: f1_score is 2pr / (p + r) for p the precision and r the recall of the
\* same pair, and 0 when p + r = 0; it never divides by zero.
C11_F1 ==
    result.kind = "f1" =>
        LET p == precision(predicted, ground_truth)
            r == recall(predicted, ground_truth)
            sum == p[1] * r[2] + r[1] * p[2]
        IN  /\ result.value[2] > 0
            /\ sum = 0 => result.value = <<0, 1>>
            /\ sum # 0 => result.value[1] * sum = 2 * p[1] * r[1] * result.value[2]

\* f1 is 0 with precision 0 and recall 0: nothing predicted, the truth has an edge
C11_Witness ==
    /\ result.kind = "f1"
    /\ result.value = <<0, 1>>
    /\ EdgeSet(predicted) = {}
    /\ EdgeSet(ground_truth) # {}

\* f1 is 2/3 for two predicted edges of which the one true edge is one
C11_WitnessTwoThirds ==
    /\ result.kind = "f1"
    /\ result.value = <<2, 3>>
    /\ Cardinality(EdgeSet(predicted)) = 2
    /\ Cardinality(EdgeSet(ground_truth)) = 1

(* C12 *)

\* C12: the structural Hamming distance is |P - T| + |T - P|, the size of the
\* symmetric difference, so an edge reversed between the graphs counts 2.
C12_SHD ==
    result.kind = "shd" =>
        LET P == EdgeSet(predicted)
            T == EdgeSet(ground_truth)
        IN  /\ result.value = Cardinality(P \cup T) - Cardinality(P \cap T)
            /\ \A e \in P :
                  (P = {e} /\ T = {<<e[2], e[1]>>} /\ e[1] # e[2]) => result.value = 2

\* one predicted edge, reversed in the truth: distance 2
C12_Witness ==
    /\ result.kind = "shd"
    /\ result.value = 2
    /\ \E e \in EdgeSet(predicted) :
          /\ e[1] # e[2]
          /\ EdgeSet(predicted) = {e}
          /\ EdgeSet(ground_truth) = {<<e[2], e[1]>>}

(* C13 *)

\* C13: evaluate_graph(G, G) gives precision 1, recall 1, f1 1 and shd 0 for
\* every graph G, one without edges or without variables included.
C13_SelfConsistency ==
    (result.kind = "evaluate" /\ predicted = ground_truth)
        => result.value = [precision |-> <<1, 1>>, recall |-> <<1, 1>>,
                           f1 |-> <<1, 1>>, shd |-> 0]

\* a graph with variables and no edge was evaluated against itself
C13_Witness ==
    /\ result.kind = "evaluate"
    /\ predicted = ground_truth
    /\ predicted.variables # <<>>
    /\ EdgeSet(predicted) = {}

\* the graph without variables was evaluated against itself
C13_WitnessNoVariables ==
    /\ result.kind = "evaluate"
    /\ predicted = ground_truth
    /\ predicted.variables = <<>>

(* C14 *)

\* a fraction within [0, 1]
InUnitInterval(q) == q[2] > 0 /\ 0 <= q[1] /\ q[1] <= q[2]

\* C14: precision, recall and f1 lie in [0, 1]; the distance is a natural
\* number, the false positives plus the false negatives, at most |P| + |T|.
C14_Bounds ==
    LET P == EdgeSet(predicted)
        T == EdgeSet(ground_truth)
        Distance(d) == /\ d \in Nat
                       /\ d = Cardinality(P \ T) + Cardinality(T \ P)
                       /\ d <= Cardinality(P) + Cardinality(T)
    IN  /\ result.kind \in {"precision", "recall", "f1"} => InUnitInterval(result.value)
        /\ result.kind = "shd" => Distance(result.value)
        /\ result.kind = "evaluate" =>
              /\ InUnitInterval(result.value.precision)
              /\ InUnitInterval(result.value.recall)
              /\ InUnitInterval(result.value.f1)
              /\ Distance(result.value.shd)

\* all four metrics strictly inside their bounds
C14_Witness ==
    /\ result.kind = "evaluate"
    /\ result.value.precision = <<1, 2>>
    /\ result.value.recall = <<1, 1>>
    /\ result.value.f1 = <<2, 3>>
    /\ result.value.shd = 1

(* C15 *)

\* the same graph with its variables listed in the order perm and its relation
\* permuted with them
Permute(g, perm) ==
    [g EXCEPT !.variables = [i \in DOMAIN g.variables |-> g.variables[perm[i]]],
              !.adjacency_matrix.data =
                  [i \in DOMAIN g.variables |->
                      [j \in DOMAIN g.variables |->
                          g.adjacency_matrix.data[perm[i]][perm[j]]]]]

\* the same graph with one more variable that has no edge
WithIsolated(g, name) ==
    LET n == Len(g.variables)
    IN  [g EXCEPT !.variables = Append(g.variables, name),
                  !.adjacency_matrix =
                      [shape |-> <<n + 1, n + 1>>,
                       data |-> [i \in 1..(n + 1) |->
                                   [j \in 1..(n + 1) |->
                                       IF i <= n /\ j <= n
                                       THEN g.adjacency_matrix.data[i][j]
                                       ELSE 0]]]]

Orderings(g) ==
    {perm \in [DOMAIN g.variables -> DOMAIN g.variables] :
        \A i, j \in DOMAIN g.variables : i # j => perm[i] # perm[j]}

IsolatedNames == {"A", "B", "C", "Z"}

\* C15: the four metrics depend on the two name-labelled edge sets only:
\* reordering the variables of either graph (relation permuted with them) or
\* adding an isolated variable changes none of them, and an edge naming a
\* variable the other graph lacks is a false positive or a false negative.
C15_EdgeSetsOnly ==
    result.kind = "evaluate" =>
        LET P == EdgeSet(predicted)
            T == EdgeSet(ground_truth)
            Absent(e, g) == e[1] \notin Range(g.variables) \/ e[2] \notin Range(g.variables)
        IN  /\ \A perm \in Orderings(predicted) :
                  evaluate_graph(Permute(predicted, perm), ground_truth) = result.value
            /\ \A perm \in Orderings(ground_truth) :
                  evaluate_graph(predicted, Permute(ground_truth, perm)) = result.value
            /\ \A name \in IsolatedNames \ Range(predicted.variables) :
                  evaluate_graph(WithIsolated(predicted, name), ground_truth) = result.value
            /\ \A name \in IsolatedNames \ Range(ground_truth.variables) :
                  evaluate_graph(predicted, WithIsolated(ground_truth, name)) = result.value
            /\ P = T => result.value.shd = 0
            /\ result.value.shd
                  >= Cardinality({e \in P : Absent(e, ground_truth)})
                       + Cardinality({e \in T : Absent(e, predicted)})
            /\ (P # {} /\ \A e \in P : Absent(e, ground_truth))
                  => result.value.precision = <<0, 1>>
            /\ (T # {} /\ \A e \in T : Absent(e, predicted))
                  => result.value.recall = <<0, 1>>

\* the same edges under two different variable orderings score as identical
C15_Witness ==
    /\ result.kind = "evaluate"
    /\ predicted.variables = <<"A", "B", "C">>
    /\ ground_truth.variables = <<"C", "A", "B">>
    /\ EdgeSet(predicted) = {<<"B", "C">>}
    /\ EdgeSet(ground_truth) = EdgeSet(predicted)
    /\ result.value.shd = 0

\* an edge into a variable the truth does not have is a false positive
C15_WitnessAbsent ==
    /\ result.kind = "evaluate"
    /\ ground_truth.variables = <<"A", "B">>
    /\ EdgeSet(predicted) = {<<"A", "B">>, <<"B", "C">>}
    /\ EdgeSet(ground_truth) = {<<"A", "B">>}
    /\ result.value.precision = <<1, 2>>
    /\ result.value.shd = 1

(* C17 *)

SyntacticallyInvalid == \E i \in DOMAIN source_code : source_code[i].k = "Unparsable"

\* C17: on a syntactically invalid source text extract_from_string ends with
\* the parser's error and nothing else: no statement is traversed, no
\* dependency is recorded and no graph, partial or not, is returned.
C17_ParseErrorPropagates ==
    /\ SyntacticallyInvalid =>
          /\ pc \in {"extract_from_string", "raised"}
          /\ graph = None
          /\ dependencies = EmptyDict
          /\ pos = 0
          /\ pc = "raised" => error = "SyntaxError"
    /\ pc = "raised" => SyntacticallyInvalid

\* the parser's error reached the caller although the first line is a valid
\* assignment that would have given an edge
C17_Witness ==
    /\ pc = "raised"
    /\ error = "SyntaxError"
    /\ Len(source_code) = 2
    /\ source_code[1] = Assign(<<Name("x")>>, BinOp(Name("a"), Name("o")))
    /\ source_code[2] = Unparsable
    /\ graph = None

(* C18 *)

\* the names a mapping mentions: its keys and every parent listed
Mentioned(deps_of) ==
    DOMAIN deps_of \cup {deps_of[t][p] : <<t, p>> \in
                            {tp \in (DOMAIN deps_of) \X (1..MaxEntries) :
                                tp[2] \in DOMAIN deps_of[tp[1]]}}

\* two other mappings mentioning the same names: every name a key without
\* parents, and every name a key with every name as a parent
BareKeys(names) == [t \in names |-> <<>>]

AllOnAll(names) == [t \in names |-> SetToList(names)]

\* C18: without an explicit ordering the variable list of from_dependencies is
\* the union of keys and parent names in strictly ascending order, so that
\* mappings mentioning the same names get the same list and the same indices.
C18_InferredOrdering ==
    (pc = "built" /\ arg.variables = None) =>
        /\ error = ""
        /\ graph # None
        /\ LET vs == graph[1].variables
               names == Mentioned(arg.dependencies)
           IN  /\ Range(vs) = names
               /\ \A i, j \in DOMAIN vs : i < j => StrKey(vs[i]) < StrKey(vs[j])
               /\ \A v \in names :
                     var_to_idx(vs)[v] = Cardinality({w \in names : StrKey(w) <= StrKey(v)})
               /\ \A other \in {BareKeys(names), AllOnAll(names)} :
                     from_dependencies(other, None).value[1].variables = vs

\* a single key listed with two parents that sort before it, given backwards
C18_Witness ==
    /\ pc = "built"
    /\ arg.variables = None
    /\ DOMAIN arg.dependencies = {"C"}
    /\ arg.dependencies["C"] = <<"B", "A">>
    /\ graph # None
    /\ graph[1].variables = <<"A", "B", "C">>

(* C19 *)

Distinct(vs) == \A i, j \in DOMAIN vs : i # j => vs[i] # vs[j]

\* C19: the variable names of every CausalGraph are pairwise distinct,
\* whether it was constructed directly or by from_dependencies, with or
\* without an explicit ordering.
C19_DistinctNames == graph # None => Distinct(graph[1].variables)

\* the same for the graphs from_dependencies builds with an inferred ordering
C19_DistinctWhenInferred ==
    (graph # None /\ arg.op = "from_dependencies" /\ arg.variables = None)
        => Distinct(graph[1].variables)

(* C20 *)

\* C20: two CausalGraphs are equal exactly when their variable sequences agree
\* position by position and their relations agree cell by cell; the same named
\* edges under another variable ordering are not equal, and a graph is not
\* equal to a value of another class.
C20_Equality ==
    result.kind = "eq" =>
        LET self == predicted
            other == arg.other
        IN  /\ other.type # "CausalGraph" => result.value = FALSE
            /\ other.type = "CausalGraph" =>
                  LET vs == self.variables
                      ws == other.value.variables
                      same == /\ Len(vs) = Len(ws)
                              /\ \A i \in DOMAIN vs : vs[i] = ws[i]
                              /\ \A i, j \in DOMAIN vs :
                                    self.adjacency_matrix.data[i][j]
                                        = other.value.adjacency_matrix.data[i][j]
                  IN  /\ result.value <=> same
                      /\ (EdgeSet(self) = EdgeSet(other.value) /\ vs # ws)
                            => result.value = FALSE

\* the edge A -> B in two graphs that list their variables in opposite orders
C20_Witness ==
    /\ result.kind = "eq"
    /\ result.value = FALSE
    /\ arg.other.type = "CausalGraph"
    /\ predicted.variables = <<"A", "B">>
    /\ arg.other.value.variables = <<"B", "A">>
    /\ EdgeSet(predicted) = {<<"A", "B">>}
    /\ EdgeSet(arg.other.value) = {<<"A", "B">>}

\* equal graphs that differ in their metadata only
C20_WitnessEqual ==
    /\ result.kind = "eq"
    /\ result.value = TRUE
    /\ arg.other.type = "CausalGraph"
    /\ EdgeSet(predicted) # {}
    /\ arg.other.value.metadata # predicted.metadata

(* C16 *)

\* C16: under every interleaving of concurrent calls each extraction returns
\* the graph, or raises the error, that the same call gives on its own, and
\* each evaluation the metrics of that graph; the dependency mapping a call
\* fills is its own and holds what its own statements so far have put there.
C16_CallsIndependent ==
    \A t \in Tasks :
        LET alone == extract_from_string(source_code[t], variables[t])
        IN  /\ pc[t] = "visit" =>
                  /\ \A u \in Tasks \ {t} : arg[u] # arg[t]
                  /\ dependencies[arg[t]]
                        = visit_children(variables[t], EmptyDict,
                                         SubSeq(source_code[t], 1, pos[t] - 1), 1)
            /\ pc[t] \in {"returned", "evaluated"} =>
                  /\ graph[t] = alone.value
                  /\ error[t] = alone.raised
            /\ pc[t] = "raised" =>
                  /\ alone.raised = error[t]
                  /\ graph[t] = None
            /\ pc[t] = "evaluated" =>
                  result[t].value = evaluate_graph(alone.value[1], ground_truth)

\* both calls are in the middle of their traversals, each with an entry of
\* its own recorded, and the two mappings differ
C16_Witness ==
    /\ pc[1] = "visit"
    /\ pc[2] = "visit"
    /\ pos[1] = 2
    /\ pos[2] = 2
    /\ Len(source_code[1]) = 2
    /\ Len(source_code[2]) = 2
    /\ dependencies[arg[1]] # EmptyDict
    /\ dependencies[arg[2]] # EmptyDict
    /\ dependencies[arg[1]] # dependencies[arg[2]]

\* both calls returned and were scored after interleaved traversals of
\* different sources
C16_WitnessEvaluated ==
    /\ pc[1] = "evaluated"
    /\ pc[2] = "evaluated"
    /\ source_code[1] # source_code[2]
    /\ result[1].value # result[2].value

(* C21 *)

\* the set entries of a graph's relation, as (source, destination) indices
SetCells(g) ==
    {c \in (DOMAIN g.variables) \X (DOMAIN g.variables) :
        g.adjacency_matrix.data[c[1]][c[2]] = 1}

\* position of the set entry c among the set entries scanned row by row
RowMajorRank(g, c) ==
    Cardinality({d \in SetCells(g) : d[1] < c[1] \/ (d[1] = c[1] /\ d[2] <= c[2])})

\* C21: get_edges returns one (parent, child) name pair per set entry of the
\* relation and none for an unset one, ordered by ascending source index and,
\* for equal source index, ascending destination index.
C21_EdgesRowMajor ==
    result.kind = "edges" =>
        LET g == graph[1]
        IN  /\ Len(result.value) = Cardinality(SetCells(g))
            /\ \A c \in SetCells(g) :
                  result.value[RowMajorRank(g, c)] = <<g.variables[c[1]], g.variables[c[2]]>>

\* two set entries whose row-major order differs from their column-major order
C21_Witness ==
    /\ result.kind = "edges"
    /\ graph[1].variables = <<"A", "B">>
    /\ SetCells(graph[1]) = {<<1, 2>>, <<2, 1>>}
    /\ result.value = <<(<<"A", "B">>), (<<"B", "A">>)>>

(* C22 *)

\* C22: extracting from the SIR simulator's source with its get_all_variables()
\* as the filter gives a graph where S_to_I has Susceptible and Infected among
\* its parents and Susceptible has S_to_I among its parents.
C22_SIR ==
    (Returned /\ source_code = SIRSource /\ variables = Some(SIRVariables)) =>
        LET deps == to_dependencies(graph[1])
        IN  /\ "S_to_I" \in DOMAIN deps
            /\ {"Susceptible", "Infected"} \subseteq Range(deps["S_to_I"])
            /\ "Susceptible" \in DOMAIN deps
            /\ "S_to_I" \in Range(deps["Susceptible"])

\* the extraction from the SIR source returned its graph over the 8 variables
C22_Witness ==
    /\ Returned
    /\ source_code = SIRSource
    /\ variables = Some(SIRVariables)
    /\ Len(graph[1].variables) = Cardinality(SIRVariables)
    /\ <<"S_to_I", "Susceptible">> \in EdgeSet(graph[1])

(* C23 *)

\* `a = b = e`: an assignment with several targets, all plain names
IsMultiTarget(stmt) ==
    /\ stmt.k = "Assign"
    /\ Len(AssignTargets(stmt)) > 1
    /\ \A i \in DOMAIN AssignTargets(stmt) : AssignTargets(stmt)[i].k = "Name"

\* `a, b = e`: an assignment to one tuple of plain names
IsDestructuring(stmt) ==
    /\ stmt.k = "Assign"
    /\ Len(AssignTargets(stmt)) = 1
    /\ stmt.kids[1].k = "Tuple"
    /\ \A i \in DOMAIN stmt.kids[1].kids : stmt.kids[1].kids[i].k = "Name"

\* the names such a statement assigns to, in source order
TargetNames(stmt) ==
    IF IsDestructuring(stmt)
    THEN [i \in DOMAIN stmt.kids[1].kids |-> stmt.kids[1].kids[i].id]
    ELSE [i \in DOMAIN AssignTargets(stmt) |-> AssignTargets(stmt)[i].id]

\* the first target of statement i gets the dependencies of its right-hand
\* side, the other targets get nothing (no other statement writing to them)
FirstTargetOnly(i) ==
    LET stmt == source_code[i]
        names == TargetNames(stmt)
        first == names[1]
        Unwritten(t) == \A j \in DOMAIN source_code \ {i} : ~WritesTo(source_code[j], t)
    IN  /\ (Passes(variables, first) /\ Unwritten(first))
              => ParentSet(dependencies, first)
                    = Restrict(variables, Identifiers(AssignValue(stmt))) \ {first}
        /\ \A k \in DOMAIN names \ {1} :
              (names[k] # first /\ Unwritten(names[k])) => names[k] \notin DOMAIN dependencies

\* C23: for `a = b = e` and for `a, b = e` the dependencies of e are recorded
\* for the first target name and nothing is recorded for the other names.
C23_FirstTargetOnly ==
    Returned =>
        \A i \in DOMAIN source_code :
            (IsMultiTarget(source_code[i]) \/ IsDestructuring(source_code[i]))
                => FirstTargetOnly(i)

\* the same for assignments with several targets alone
C23_SeveralTargets ==
    Returned =>
        \A i \in DOMAIN source_code : IsMultiTarget(source_code[i]) => FirstTargetOnly(i)

\* what a destructuring assignment does: none of its names gets an entry
\* from it
C23_DestructuringRecordsNothing ==
    Returned =>
        \A i \in DOMAIN source_code :
            IsDestructuring(source_code[i]) =>
                \A k \in DOMAIN TargetNames(source_code[i]) :
                    (\A j \in DOMAIN source_code \ {i} :
                        ~WritesTo(source_code[j], TargetNames(source_code[i])[k]))
                    => TargetNames(source_code[i])[k] \notin DOMAIN dependencies

(* C24 *)

\* the assignments and recognised append calls among the nodes of a statement
Writes(stmt) ==
    {n \in Nodes(stmt) :
        \/ n.k = "Assign" /\ n.kids[1].k \in {"Name", "Attribute"}
        \/ \E o \in Identifiers(n) : IsAppendOn(n, o)}

\* the filtered, self-reference-free dependency set of such a node
OwnSet(filter, n) ==
    IF n.k = "Assign"
    THEN Restrict(filter, Identifiers(AssignValue(n))) \ {n.kids[1].id}
    ELSE IF CallArgs(n) = <<>> THEN {}
         ELSE Restrict(filter, Identifiers(CallArgs(n)[1])) \ {n.kids[1].kids[1].id}

\* every key of the mapping has at least one parent
KeysNonEmpty(deps_of) == \A t \in DOMAIN deps_of : deps_of[t] # <<>>

\* a traversal step over a statement all of whose assignments and appends
\* have an empty dependency set
VisitsEmpty ==
    /\ pc = "visit"
    /\ pos <= Len(source_code)
    /\ \A n \in Writes(source_code[pos]) : OwnSet(variables, n) = {}

\* C24: at every point of a traversal every key of the mapping has a
\* non-empty parent set, and a statement whose assignments and appends all
\* have an empty filtered, self-reference-free dependency set leaves the
\* mapping as it was (a standalone `x = 5` creates no entry).
C24_NoEmptyEntries ==
    [][ /\ KeysNonEmpty(dependencies')
        /\ VisitsEmpty => dependencies' = dependencies ]_vars

\* the first half alone
C24_KeysNonEmpty == KeysNonEmpty(dependencies)

\* the second half for every filter setting but the supplied empty set
C24_EmptyChangesNothing ==
    [][ (VisitsEmpty /\ variables # Some({})) => dependencies' = dependencies ]_vars

(* C25 *)

\* the traversal is about to visit an assignment whose resolved target the
\* supplied filter does not hold
VisitsFilteredOut ==
    /\ pc = "visit"
    /\ pos <= Len(source_code)
    /\ source_code[pos].k = "Assign"
    /\ source_code[pos].kids[1].k \in {"Name", "Attribute"}
    /\ variables # None
    /\ source_code[pos].kids[1].id \notin variables[1]

\* C25: an assignment whose resolved target is not in the supplied filter
\* records nothing for the target, and the append calls inside its right-hand
\* side are recorded exactly as if that expression stood alone.
C25_SkippedButTraversed ==
    [][ VisitsFilteredOut =>
          /\ ParentSet(dependencies', source_code[pos].kids[1].id)
                = ParentSet(dependencies, source_code[pos].kids[1].id)
          /\ dependencies'
                = visit(variables, dependencies, Expr(AssignValue(source_code[pos]))) ]_vars

\* the same for every supplied filter but the empty set
C25_SkippedButTraversedNonEmpty ==
    [][ (VisitsFilteredOut /\ variables # Some({})) =>
          /\ ParentSet(dependencies', source_code[pos].kids[1].id)
                = ParentSet(dependencies, source_code[pos].kids[1].id)
          /\ dependencies'
                = visit(variables, dependencies, Expr(AssignValue(source_code[pos]))) ]_vars

\* an append nested in the right-hand side of a filtered-out assignment was
\* recorded for its owner
C25_NestedAppendRecorded ==
    /\ Returned
    /\ Len(source_code) = 1
    /\ source_code[1] = Assign(<<Name("a")>>,
                               Call(Attribute(Name("o"), "append"), <<Name("x")>>))
    /\ variables = Some({"o", "x"})
    /\ dependencies = [t \in {"o"} |-> <<"x">>]

(* C26 *)

\* the calls of a statement that are `owner.append(arg, ...)` on a plain name
\* owner with at least one positional argument
Recognised(stmt) ==
    {n \in Nodes(stmt) :
        /\ \E o \in Identifiers(n) : IsAppendOn(n, o)
        /\ CallArgs(n) # <<>>}

\* what a recognised call adds to the parents of its owner
Contribution(filter, n) ==
    LET owner == n.kids[1].kids[1].id
    IN  IF filter = None \/ owner \in filter[1]
        THEN Restrict(filter, Identifiers(CallArgs(n)[1])) \ {owner}
        ELSE {}

\* the traversal is about to visit a statement that holds no assignment
VisitsCallsOnly ==
    /\ pc = "visit"
    /\ pos <= Len(source_code)
    /\ \A n \in Nodes(source_code[pos]) : n.k # "Assign"

C26_WitnessOtherOwner ==
    /\ pc = "visit"
    /\ pos = 2
    /\ source_code[1]
          = Expr(Call(Attribute(Attribute(Name("self"), "o"), "append"), <<Name("a")>>))
    /\ variables = None
    /\ dependencies = EmptyDict

(* C27 *)

C28_ExplicitOrdering ==
    (pc = "built" /\ arg.variables # None) =>
        /\ error = ""
        /\ graph # None
        /\ graph[1].variables = arg.variables[1]
        /\ LET names == Range(arg.variables[1])
               kept == {e \in PairSet(arg.dependencies) : e[1] \in names /\ e[2] \in names}
               edges == get_edges(graph[1])
           IN  /\ Range(edges) = {<<e[2], e[1]>> : e \in kept}
               /\ Len(edges) = Cardinality(kept)

\* an ordering without C for a mapping that has C as a target and as a parent
\* and an edge between names of the ordering
C28_Witness ==
    /\ pc = "built"
    /\ arg.variables = Some(<<"B", "A">>)
    /\ DOMAIN arg.dependencies = {"A", "C"}
    /\ arg.dependencies["C"] = <<"A">>
    /\ arg.dependencies["A"] = <<"C", "B">>
    /\ graph # None
    /\ get_edges(graph[1]) = <<(<<"B", "A">>)>>

\* a pair the mapping lists twice became one edge
C28_WitnessRepeated ==
    /\ pc = "built"
    /\ arg.variables = Some(<<"B", "A">>)
    /\ DOMAIN arg.dependencies = {"A"}
    /\ arg.dependencies["A"] = <<"B", "C", "B">>
    /\ graph # None
    /\ get_edges(graph[1]) = <<(<<"B", "A">>)>>

(* C29 *)

\* C29: swapping the two graphs exchanges precision and recall and leaves f1
\* and the structural Hamming distance as they are, rescue values included.
C29_SwapArguments ==
    /\ result.kind = "precision" => result.value = recall(ground_truth, predicted)
    /\ result.kind = "recall" => result.value = precision(ground_truth, predicted)
    /\ result.kind = "f1" => result.value = f1_score(ground_truth, predicted)
    /\ result.kind = "shd" =>
          result.value = structural_hamming_distance(ground_truth, predicted)
    /\ result.kind = "evaluate" =>
          LET swapped == evaluate_graph(ground_truth, predicted)
          IN  /\ result.value.precision = swapped.recall
              /\ result.value.recall = swapped.precision
              /\ result.value.f1 = swapped.f1
              /\ result.value.shd = swapped.shd

\* precision and recall differ and change places when the graphs do
C29_Witness ==
    /\ result.kind = "evaluate"
    /\ result.value.precision = <<1, 2>>
    /\ result.value.recall = <<1, 1>>
    /\ precision(ground_truth, predicted) = <<1, 1>>
    /\ recall(ground_truth, predicted) = <<1, 2>>

\* the rescue values change places: nothing predicted against a truth with an edge
C29_WitnessRescue ==
    /\ result.kind = "precision"
    /\ EdgeSet(predicted) = {}
    /\ EdgeSet(ground_truth) # {}
    /\ result.value = <<0, 1>>
    /\ recall(ground_truth, predicted) = <<0, 1>>

(* C30 *)

\* the edges of g from a variable to itself
SelfLoops(g) == {e \in EdgeSet(g) : e[1] = e[2]}

\* C30: scored against a ground truth with a self-loop, a graph the extractor
\* returns has recall below 1 and a structural Hamming distance of at least the
\* number of self-loops of the ground truth.
C30_SelfLoopsNeverMatched ==
    (pc = "scored" /\ SelfLoops(ground_truth) # {}) =>
        /\ result.value.recall[1] < result.value.recall[2]
        /\ result.value.shd >= Cardinality(SelfLoops(ground_truth))
        /\ SelfLoops(predicted) = {}

\* sir.py scored against its own ground truth: the three self-loops are all
\* that is missed
C30_Witness ==
    /\ pc = "scored"
    /\ source_code = SIRSource
    /\ ground_truth = get_ground_truth_graph
    /\ Cardinality(SelfLoops(ground_truth)) = 3
    /\ result.value.precision = <<1, 1>>
    /\ result.value.recall = <<10, 13>>
    /\ result.value.shd = 3

\* a small ground truth with two self-loops, every other edge of it found
C30_WitnessTwoLoops ==
    /\ pc = "scored"
    /\ Cardinality(SelfLoops(ground_truth)) = 2
    /\ EdgeSet(ground_truth) \ SelfLoops(ground_truth) = EdgeSet(predicted)
    /\ result.value.shd = 2
    /\ result.value.recall = <<3, 5>>

\* without a self-loop in the ground truth the score can be perfect
C30_WitnessPerfectWithoutLoops ==
    /\ pc = "scored"
    /\ SelfLoops(ground_truth) = {}
    /\ result.value.recall = <<1, 1>>
    /\ result.value.precision = <<1, 1>>
    /\ result.value.shd = 0

====
